---- MODULE Spec2Model ----
(***************************************************************************)
(* LinearMap of libcore/hashmap.rs: open addressing with linear probing.   *)
(* The map is one record (the LinearMap struct); every public method is    *)
(* one action.  Bucket indices are 0-based as in the source.               *)
(***************************************************************************)
EXTENDS Integers, Sequences, FiniteSets, TLC

\* ------------------------------------------------------------- bounds
MaxKey == 2
MaxVal == 2
MaxK0 == 1
MaxK1 == 3
MaxInitCap == 4
MaxSlots == 3

INITIAL_CAPACITY == 32

Keys == 1..MaxKey
Values == 1..MaxVal

\* Keys are compared with K's Eq, and equal keys need not be the same object
\* ("keys carrying auxiliary data"): key objects k and k + MaxKey are two
\* objects that compare equal.  Keys holds one object of every class.
KeyObjects == 1..(2 * MaxKey)
KeyClass(k) == ((k - 1) % MaxKey) + 1

\* *k == bkt.key
key_eq(k, key) == KeyClass(k) = KeyClass(key)

\* ------------------------------------------------------------- Option<T>
None == <<>>
Some(x) == <<x>>
is_some(o) == o # None
unwrap(o) == o[1]

\* struct Bucket<K,V> { hash, key, value }
Bucket(hash, key, value) == [hash |-> hash, key |-> key, value |-> value]

\* enum SearchResult { FoundEntry(uint), FoundHole(uint), TableFull }
FoundEntry(i) == [tag |-> "FoundEntry", idx |-> i]
FoundHole(i) == [tag |-> "FoundHole", idx |-> i]
TableFull == [tag |-> "TableFull", idx |-> 0]
\* h % self.buckets.len() with an empty bucket vector: the task fails
ModuloZero == [tag |-> "ModuloZero", idx |-> 0]

\* k.hash_keyed(self.k0, self.k1) as uint: a pure function of the key and the
\* two seeds, the same for keys that compare equal; k0 = 0 makes every key hash
\* alike, larger k0 spread the keys
hash_keyed(k, k0, k1) == KeyClass(k) * k0 + k1

\* resize_at rounding three quarters of the capacity up
resize_at_rounded_up(capacity) == (capacity * 3 + 3) \div 4

\* ((capacity as float) * 3. / 4.) as uint
resize_at(capacity) == (capacity * 3) \div 4

\* vec::from_fn(n, |_| None)
from_fn(n) == [i \in 0..(n - 1) |-> None]

len_buckets(buckets) == Cardinality(DOMAIN buckets)

linear_map_with_capacity_and_keys(k0, k1, initial_capacity) ==
    [k0 |-> k0, k1 |-> k1,
     resize_at |-> resize_at(initial_capacity),
     size |-> 0,
     buckets |-> from_fn(initial_capacity)]

\* (idx + 1) % len_buckets
next_bucket(idx, len) == (idx + 1) % len

\* to_bucket starting every probe sequence one bucket late
to_bucket_shifted(buckets, h) == (h + 1) % len_buckets(buckets)

\* h % self.buckets.len()
to_bucket(buckets, h) == h % len_buckets(buckets)

\* bucket_sequence that compares keys only, not the cached hashes
RECURSIVE bucket_sequence_by_key(_, _, _, _, _)
bucket_sequence_by_key(buckets, hash, k, start_idx, idx) ==
    IF buckets[idx] = None
    THEN FoundHole(idx)
    ELSE IF key_eq(k, unwrap(buckets[idx]).key)
    THEN FoundEntry(idx)
    ELSE LET n == next_bucket(idx, len_buckets(buckets))
         IN  IF n = start_idx
             THEN TableFull
             ELSE bucket_sequence_by_key(buckets, hash, k, start_idx, n)

\* The loop of bucket_sequence with the visitor of bucket_for_key_with_hash:
\* the visitor returns FoundEntry / FoundHole from the enclosing function, the
\* loop ends with TableFull when idx is back at start_idx.
RECURSIVE bucket_sequence(_, _, _, _, _)
bucket_sequence(buckets, hash, k, start_idx, idx) ==
    IF buckets[idx] = None
    THEN FoundHole(idx)
    ELSE IF unwrap(buckets[idx]).hash = hash /\ key_eq(k, unwrap(buckets[idx]).key)
    THEN FoundEntry(idx)
    ELSE LET n == next_bucket(idx, len_buckets(buckets))
         IN  IF n = start_idx
             THEN TableFull
             ELSE bucket_sequence(buckets, hash, k, start_idx, n)

\* The same loop, giving the indices the visitor of bucket_for_key_with_hash
\* is called with, in order
RECURSIVE bucket_sequence_visits(_, _, _, _, _)
bucket_sequence_visits(buckets, hash, k, start_idx, idx) ==
    IF buckets[idx] = None
    THEN <<idx>>
    ELSE IF unwrap(buckets[idx]).hash = hash /\ key_eq(k, unwrap(buckets[idx]).key)
    THEN <<idx>>
    ELSE LET n == next_bucket(idx, len_buckets(buckets))
         IN  IF n = start_idx
             THEN <<idx>>
             ELSE <<idx>> \o bucket_sequence_visits(buckets, hash, k,
                                                    start_idx, n)

bucket_for_key_with_hash(buckets, hash, k) ==
    IF len_buckets(buckets) = 0
    THEN ModuloZero
    ELSE bucket_sequence(buckets, hash, k,
                         to_bucket(buckets, hash), to_bucket(buckets, hash))

bucket_for_key(self, k) ==
    bucket_for_key_with_hash(self.buckets, hash_keyed(k, self.k0, self.k1), k)

\* Result of a method that mutates the map: the map afterwards, the value
\* returned, and whether the task failed (die!, modulo zero) inside it.
Res(self, ret, failed) == [self |-> self, ret |-> ret, failed |-> failed]

\* insert_internal that keeps the stored key when it overwrites
insert_internal_keeps_key(self, hash, k, v) ==
    LET r == bucket_for_key_with_hash(self.buckets, hash, k)
    IN  CASE r.tag = "FoundHole" ->
               Res([self EXCEPT !.buckets[r.idx] = Some(Bucket(hash, k, v)),
                                !.size = self.size + 1], TRUE, FALSE)
          [] r.tag = "FoundEntry" ->
               Res([self EXCEPT !.buckets[r.idx] =
                        Some(Bucket(hash, unwrap(self.buckets[r.idx]).key, v))],
                   FALSE, FALSE)
          [] OTHER -> Res(self, FALSE, TRUE)

\* insert_internal: place or overwrite; die! on TableFull
insert_internal(self, hash, k, v) ==
    LET r == bucket_for_key_with_hash(self.buckets, hash, k)
    IN  CASE r.tag = "FoundHole" ->
               Res([self EXCEPT !.buckets[r.idx] = Some(Bucket(hash, k, v)),
                                !.size = self.size + 1], TRUE, FALSE)
          [] r.tag = "FoundEntry" ->
               Res([self EXCEPT !.buckets[r.idx] = Some(Bucket(hash, k, v))],
                   FALSE, FALSE)
          [] OTHER -> Res(self, FALSE, TRUE)

\* insert_opt_bucket that stores the bucket a second time under the next hash
insert_opt_bucket_twice(self, bucket) ==
    IF is_some(bucket)
    THEN LET r == insert_internal(self, unwrap(bucket).hash,
                                  unwrap(bucket).key, unwrap(bucket).value)
         IN  IF r.failed
             THEN r
             ELSE insert_internal(r.self, unwrap(bucket).hash + 1,
                                  unwrap(bucket).key, unwrap(bucket).value)
    ELSE Res(self, FALSE, FALSE)

\* insert_opt_bucket that caches another hash than the bucket carried
insert_opt_bucket_changing_hash(self, bucket) ==
    IF is_some(bucket)
    THEN insert_internal(self,
                         unwrap(bucket).hash + len_buckets(self.buckets),
                         unwrap(bucket).key, unwrap(bucket).value)
    ELSE Res(self, FALSE, FALSE)

\* insert_opt_bucket: reinsert a taken bucket under its cached hash
insert_opt_bucket(self, bucket) ==
    IF is_some(bucket)
    THEN insert_internal(self, unwrap(bucket).hash, unwrap(bucket).key,
                         unwrap(bucket).value)
    ELSE Res(self, FALSE, FALSE)

\* expand_loop stopping one bucket short of old_capacity
RECURSIVE expand_loop_short(_, _, _, _)
expand_loop_short(self, old_buckets, i, old_capacity) ==
    IF i >= old_capacity - 1
    THEN Res(self, None, FALSE)
    ELSE LET r == insert_opt_bucket(self, old_buckets[i])
         IN  IF r.failed
             THEN Res(r.self, None, TRUE)
             ELSE expand_loop_short(r.self, old_buckets, i + 1, old_capacity)

\* for uint::range(0, old_capacity) |i| { insert_opt_bucket(old_buckets[i]) }
RECURSIVE expand_loop(_, _, _, _)
expand_loop(self, old_buckets, i, old_capacity) ==
    IF i >= old_capacity
    THEN Res(self, None, FALSE)
    ELSE LET r == insert_opt_bucket(self, old_buckets[i])
         IN  IF r.failed
             THEN Res(r.self, None, TRUE)
             ELSE expand_loop(r.self, old_buckets, i + 1, old_capacity)

\* expand keeping every bucket at its old index instead of reinserting it
expand_without_rehash(self) ==
    LET old_capacity == len_buckets(self.buckets)
        new_capacity == old_capacity * 2
    IN  Res([self EXCEPT !.resize_at = resize_at(new_capacity),
                         !.buckets = [i \in 0..(new_capacity - 1) |->
                                         IF i < old_capacity
                                         THEN self.buckets[i] ELSE None]],
            None, FALSE)

\* expand without self.size = 0
expand_keeps_size(self) ==
    LET old_capacity == len_buckets(self.buckets)
        new_capacity == old_capacity * 2
    IN  expand_loop([self EXCEPT !.resize_at = resize_at(new_capacity),
                                 !.buckets = from_fn(new_capacity)],
                    self.buckets, 0, old_capacity)

expand(self) ==
    LET old_capacity == len_buckets(self.buckets)
        new_capacity == old_capacity * 2
    IN  expand_loop([self EXCEPT !.resize_at = resize_at(new_capacity),
                                 !.buckets = from_fn(new_capacity),
                                 !.size = 0],
                    self.buckets, 0, old_capacity)

\* while self.buckets[idx].is_some() { take; insert_opt_bucket; next }
\* The value returned is the number of passes the loop made.
RECURSIVE repair_loop(_, _)
repair_loop(self, idx) ==
    IF ~is_some(self.buckets[idx])
    THEN Res(self, 0, FALSE)
    ELSE LET r == insert_opt_bucket([self EXCEPT !.buckets[idx] = None],
                                    self.buckets[idx])
         IN  IF r.failed
             THEN Res(r.self, 0, TRUE)
             ELSE [repair_loop(r.self,
                               next_bucket(idx, len_buckets(self.buckets)))
                       EXCEPT !.ret = @ + 1]

\* pop_internal emptying the slot without repairing the probe chain
pop_internal_no_repair(self, hash, k) ==
    LET s == bucket_for_key_with_hash(self.buckets, hash, k)
    IN  CASE s.tag = "ModuloZero" -> Res(self, None, TRUE)
          [] s.tag \in {"TableFull", "FoundHole"} -> Res(self, None, FALSE)
          [] OTHER ->
               Res([self EXCEPT !.buckets[s.idx] = None,
                                !.size = self.size - 1],
                   Some(unwrap(self.buckets[s.idx]).value), FALSE)

\* pop_internal without the final self.size = size
pop_internal_stale_size(self, hash, k) ==
    LET s == bucket_for_key_with_hash(self.buckets, hash, k)
    IN  CASE s.tag = "ModuloZero" -> Res(self, None, TRUE)
          [] s.tag \in {"TableFull", "FoundHole"} -> Res(self, None, FALSE)
          [] OTHER ->
               LET r == repair_loop([self EXCEPT !.buckets[s.idx] = None],
                                    next_bucket(s.idx, len_buckets(self.buckets)))
               IN  Res(r.self, Some(unwrap(self.buckets[s.idx]).value),
                       r.failed)

pop_internal(self, hash, k) ==
    LET s == bucket_for_key_with_hash(self.buckets, hash, k)
    IN  CASE s.tag = "ModuloZero" -> Res(self, None, TRUE)
          [] s.tag \in {"TableFull", "FoundHole"} -> Res(self, None, FALSE)
          [] OTHER ->
               LET bucket == self.buckets[s.idx]
                   value == IF is_some(bucket)
                            THEN Some(unwrap(bucket).value) ELSE None
                   size == self.size - 1
                   r == repair_loop([self EXCEPT !.buckets[s.idx] = None],
                                    next_bucket(s.idx, len_buckets(self.buckets)))
               IN  IF r.failed
                   THEN Res(r.self, None, TRUE)
                   ELSE Res([r.self EXCEPT !.size = size], value, FALSE)

\* ------------------------------------------------------------- public API
len(self) == self.size

\* Outcome of a pure lookup: the value returned, and whether the task failed
contains_key(self, k) ==
    LET r == bucket_for_key(self, k)
    IN  CASE r.tag = "FoundEntry" -> [ret |-> TRUE, failed |-> FALSE]
          [] r.tag = "ModuloZero" -> [ret |-> FALSE, failed |-> TRUE]
          [] OTHER -> [ret |-> FALSE, failed |-> FALSE]

find(self, k) ==
    LET r == bucket_for_key(self, k)
    IN  CASE r.tag = "FoundEntry" ->
               IF is_some(self.buckets[r.idx])
               THEN [ret |-> Some(unwrap(self.buckets[r.idx]).value),
                     failed |-> FALSE]
               ELSE [ret |-> None, failed |-> TRUE]
          [] r.tag = "ModuloZero" -> [ret |-> None, failed |-> TRUE]
          [] OTHER -> [ret |-> None, failed |-> FALSE]

\* insert and swap without the growth before insert_internal
expand_never(self) == Res(self, None, FALSE)

\* if self.size >= self.resize_at { self.expand(); }
expand_if_needed(self) ==
    IF self.size >= self.resize_at THEN expand(self) ELSE Res(self, None, FALSE)

\* insert hashing the key with the seeds in the wrong order
insert_swapped_seeds(self, k, v) ==
    LET e == expand_if_needed(self)
    IN  IF e.failed
        THEN Res(e.self, FALSE, TRUE)
        ELSE insert_internal(e.self, hash_keyed(k, self.k1, self.k0), k, v)

\* insert growing only when size has passed resize_at
insert_growing_late(self, k, v) ==
    LET e == IF self.size > self.resize_at
             THEN expand(self) ELSE Res(self, None, FALSE)
    IN  IF e.failed
        THEN Res(e.self, FALSE, TRUE)
        ELSE insert_internal(e.self, hash_keyed(k, self.k0, self.k1), k, v)

\* insert answering true also when it overwrote
insert_answering_true(self, k, v) ==
    LET e == expand_if_needed(self)
        r == insert_internal(e.self, hash_keyed(k, self.k0, self.k1), k, v)
    IN  IF e.failed
        THEN Res(e.self, FALSE, TRUE)
        ELSE Res(r.self, TRUE, r.failed)

insert(self, k, v) ==
    LET e == expand_if_needed(self)
    IN  IF e.failed
        THEN Res(e.self, FALSE, TRUE)
        ELSE insert_internal(e.self, hash_keyed(k, self.k0, self.k1), k, v)

\* The alternative the specification permits (spec.md, open question of
\* section 9): search first, and grow only when the key is not in the map.
insert_search_first(self, k, v) ==
    LET hash == hash_keyed(k, self.k0, self.k1)
        s == bucket_for_key_with_hash(self.buckets, hash, k)
    IN  CASE s.tag = "ModuloZero" -> Res(self, FALSE, TRUE)
          [] s.tag = "FoundEntry" -> insert_internal(self, hash, k, v)
          [] OTHER ->
               LET e == expand_if_needed(self)
               IN  IF e.failed
                   THEN Res(e.self, FALSE, TRUE)
                   ELSE insert_internal(e.self, hash, k, v)

pop(self, k) == pop_internal(self, hash_keyed(k, self.k0, self.k1), k)

remove(self, k) ==
    LET r == pop(self, k) IN Res(r.self, is_some(r.ret), r.failed)

\* swap without the size >= resize_at check before insert_internal
swap_no_expand(self, k, v) ==
    LET hash == hash_keyed(k, self.k0, self.k1)
        p == pop_internal(self, hash, k)
        i == insert_internal(p.self, hash, k, v)
    IN  IF p.failed THEN Res(p.self, None, TRUE)
        ELSE Res(i.self, p.ret, i.failed)

swap(self, k, v) ==
    LET hash == hash_keyed(k, self.k0, self.k1)
        p == pop_internal(self, hash, k)
        e == expand_if_needed(p.self)
        i == insert_internal(e.self, hash, k, v)
    IN  IF p.failed THEN Res(p.self, None, TRUE)
        ELSE IF e.failed THEN Res(e.self, None, TRUE)
        ELSE Res(i.self, p.ret, i.failed)

\* clear that gives the bucket vector back
clear_releasing_buckets(self) ==
    Res([self EXCEPT !.buckets = from_fn(0), !.size = 0], None, FALSE)

clear(self) ==
    Res([self EXCEPT !.buckets = [idx \in DOMAIN self.buckets |-> None],
                     !.size = 0], None, FALSE)

\* The pairs handed to the visitor of consume / each, in slot order
\* pairs_from walking the slots from the last one down
RECURSIVE pairs_from_descending(_, _)
pairs_from_descending(buckets, i) ==
    IF i >= len_buckets(buckets)
    THEN <<>>
    ELSE IF is_some(buckets[i])
    THEN pairs_from_descending(buckets, i + 1)
         \o <<<<unwrap(buckets[i]).key, unwrap(buckets[i]).value>>>>
    ELSE pairs_from_descending(buckets, i + 1)

RECURSIVE pairs_from(_, _)
pairs_from(buckets, i) ==
    IF i >= len_buckets(buckets)
    THEN <<>>
    ELSE IF is_some(buckets[i])
    THEN <<<<unwrap(buckets[i]).key, unwrap(buckets[i]).value>>>>
         \o pairs_from(buckets, i + 1)
    ELSE pairs_from(buckets, i + 1)

consume(self) ==
    Res([self EXCEPT !.buckets = from_fn(0), !.size = 0],
        pairs_from(self.buckets, 0), FALSE)

\* ------------------------------------------------------------- state
\* A visitor (the blk of each) is modelled by the number of the call it
\* answers "stop" (false) to; NeverStops answers "go on" to every call.
NeverStops == 0

\* each_loop that goes on after the visitor said stop
RECURSIVE each_loop_no_break(_, _, _, _)
each_loop_no_break(buckets, i, stop, visited) ==
    IF i >= len_buckets(buckets)
    THEN visited
    ELSE IF is_some(buckets[i])
    THEN each_loop_no_break(buckets, i + 1, stop, Append(visited, i))
    ELSE each_loop_no_break(buckets, i + 1, stop, visited)

\* The loop of each from slot i on; visited lists the slots whose pair was
\* handed to the visitor so far
RECURSIVE each_loop(_, _, _, _)
each_loop(buckets, i, stop, visited) ==
    IF i >= len_buckets(buckets)
    THEN visited
    ELSE IF is_some(buckets[i])
    THEN IF Len(visited) + 1 = stop
         THEN Append(visited, i)
         ELSE each_loop(buckets, i + 1, stop, Append(visited, i))
    ELSE each_loop(buckets, i + 1, stop, visited)

\* each: the slots whose (key, value) the visitor was called with, in call order
each(self, stop) == each_loop(self.buckets, 0, stop, <<>>)

\* The message a failing task dies with
Diagnostic(msg, k) == [msg |-> msg, key |-> k]

NoEntryFound(k) == Diagnostic("No entry found for key", Some(k))

\* get: ret is the value, or the diagnostic of the failure
get(self, k) ==
    LET r == find(self, k)
    IN  IF r.failed
        THEN Res(self,
                 Diagnostic(IF len_buckets(self.buckets) = 0
                            THEN "modulo zero"
                            ELSE "LinearMap::find: internal logic error",
                            None),
                 TRUE)
        ELSE IF is_some(r.ret)
        THEN Res(self, unwrap(r.ret), FALSE)
        ELSE Res(self, NoEntryFound(k), TRUE)

\* eq_loop that compares the keys only
RECURSIVE eq_loop_keys_only(_, _, _)
eq_loop_keys_only(self, other_map, i) ==
    IF i >= len_buckets(self.buckets)
    THEN [ret |-> TRUE, failed |-> FALSE]
    ELSE IF is_some(self.buckets[i])
    THEN LET r == find(other_map, unwrap(self.buckets[i]).key)
         IN  IF r.failed
             THEN [ret |-> FALSE, failed |-> TRUE]
             ELSE IF r.ret = None
             THEN [ret |-> FALSE, failed |-> FALSE]
             ELSE eq_loop_keys_only(self, other_map, i + 1)
    ELSE eq_loop_keys_only(self, other_map, i + 1)

\* The loop of eq (for self.each |&(key, value)| ...) from slot i on
RECURSIVE eq_loop(_, _, _)
eq_loop(self, other_map, i) ==
    IF i >= len_buckets(self.buckets)
    THEN [ret |-> TRUE, failed |-> FALSE]
    ELSE IF is_some(self.buckets[i])
    THEN LET r == find(other_map, unwrap(self.buckets[i]).key)
         IN  IF r.failed
             THEN [ret |-> FALSE, failed |-> TRUE]
             ELSE IF r.ret = None
             THEN [ret |-> FALSE, failed |-> FALSE]
             ELSE IF unwrap(self.buckets[i]).value # unwrap(r.ret)
             THEN [ret |-> FALSE, failed |-> FALSE]
             ELSE eq_loop(self, other_map, i + 1)
    ELSE eq_loop(self, other_map, i + 1)

eq(self, other_map) ==
    IF len(self) # len(other_map)
    THEN [ret |-> FALSE, failed |-> FALSE]
    ELSE eq_loop(self, other_map, 0)

ne(self, other_map) ==
    LET r == eq(self, other_map)
    IN  [ret |-> ~r.ret, failed |-> r.failed]

\* ---- LinearSet<T>: a LinearMap<T, ()> ----

Unit == "()"

LinearSet(m) == [map |-> m]

LinearSet_new(k0, k1) ==
    LinearSet(linear_map_with_capacity_and_keys(k0, k1, INITIAL_CAPACITY))

LinearSet_len(self) == len(self.map)

contains(self, value) == contains_key(self.map, value)

LinearSet_insert(self, value) ==
    LET r == insert(self.map, value, Unit)
    IN  Res(LinearSet(r.self), r.ret, r.failed)

\* remove that answers but leaves the value in
LinearSet_remove_answer_only(self, value) ==
    LET r == contains(self, value)
    IN  Res(self, r.ret, r.failed)

LinearSet_remove(self, value) ==
    LET r == remove(self.map, value)
    IN  Res(LinearSet(r.self), r.ret, r.failed)

LinearSet_clear(self) ==
    LET r == clear(self.map)
    IN  Res(LinearSet(r.self), r.ret, r.failed)

\* A visitor f: fn(&T) -> bool is the list of values it was called with and
\* the number of the call it answers false to (NeverStops: to none).
Visitor(stop) == [stop |-> stop, calls |-> <<>>]

\* f after the call f(v), and the answer of that call
Called(f, v) == [f EXCEPT !.calls = Append(@, v)]

GoesOn(f) == Len(f.calls) # f.stop

\* How a visiting loop ended: the visitor, whether the loop returned on a
\* false answer, whether the task failed
Visited(f, returned, fail) == [f |-> f, returned |-> returned, failed |-> fail]

\* for self.each |v| { if !f(v) { return } }, from slot i on
RECURSIVE each_value_of(_, _, _)
each_value_of(self, i, f) ==
    IF i >= len_buckets(self.map.buckets)
    THEN Visited(f, FALSE, FALSE)
    ELSE IF is_some(self.map.buckets[i])
    THEN LET f2 == Called(f, unwrap(self.map.buckets[i]).key)
         IN  IF GoesOn(f2)
             THEN each_value_of(self, i + 1, f2)
             ELSE Visited(f2, TRUE, FALSE)
    ELSE each_value_of(self, i + 1, f)

\* for self.each |v| { if other.contains(v) = wanted { if !f(v) { return } } },
\* from slot i on
RECURSIVE each_value_where(_, _, _, _, _)
each_value_where(self, i, other_set, wanted, f) ==
    IF i >= len_buckets(self.map.buckets)
    THEN Visited(f, FALSE, FALSE)
    ELSE IF is_some(self.map.buckets[i])
    THEN LET v == unwrap(self.map.buckets[i]).key
             c == contains(other_set, v)
         IN  IF c.failed
             THEN Visited(f, FALSE, TRUE)
             ELSE IF c.ret = wanted
             THEN IF GoesOn(Called(f, v))
                  THEN each_value_where(self, i + 1, other_set, wanted,
                                        Called(f, v))
                  ELSE Visited(Called(f, v), TRUE, FALSE)
             ELSE each_value_where(self, i + 1, other_set, wanted, f)
    ELSE each_value_where(self, i + 1, other_set, wanted, f)

\* difference that does not ask other.contains
difference_unfiltered(self, other_set, f) ==
    each_value_of(self, 0, f)

difference(self, other_set, f) ==
    each_value_where(self, 0, other_set, FALSE, f)

\* intersection that does not ask other.contains
intersection_unfiltered(self, other_set, f) ==
    each_value_of(self, 0, f)

intersection(self, other_set, f) ==
    each_value_where(self, 0, other_set, TRUE, f)

\* iter::all(self, |v| other.contains(v) = wanted), from slot i on: false at
\* the first value the predicate rejects, true when there is none
RECURSIVE iter_all(_, _, _, _)
iter_all(self, i, other_set, wanted) ==
    IF i >= len_buckets(self.map.buckets)
    THEN [ret |-> TRUE, failed |-> FALSE]
    ELSE IF is_some(self.map.buckets[i])
    THEN LET c == contains(other_set, unwrap(self.map.buckets[i]).key)
         IN  IF c.failed
             THEN [ret |-> FALSE, failed |-> TRUE]
             ELSE IF c.ret # wanted
             THEN [ret |-> FALSE, failed |-> FALSE]
             ELSE iter_all(self, i + 1, other_set, wanted)
    ELSE iter_all(self, i + 1, other_set, wanted)

\* is_disjoint that looks at the sizes only
is_disjoint_by_size(self, other_set) ==
    [ret |-> LinearSet_len(self) = 0 \/ LinearSet_len(other_set) = 0,
     failed |-> FALSE]

is_disjoint(self, other_set) == iter_all(self, 0, other_set, FALSE)

\* is_subset that compares the sizes only
is_subset_by_size(self, other_set) ==
    [ret |-> LinearSet_len(self) <= LinearSet_len(other_set),
     failed |-> FALSE]

is_subset(self, other_set) == iter_all(self, 0, other_set, TRUE)

is_superset(self, other_set) == is_subset(other_set, self)

LinearSet_eq(self, other_set) == eq(self.map, other_set.map)

LinearSet_ne(self, other_set) == ne(self.map, other_set.map)

\* symmetric_difference without its second half
symmetric_difference_one_way(self, other_set, f) ==
    difference(self, other_set, f)

\* self.difference(other, f); other.difference(self, f);
symmetric_difference(self, other_set, f) ==
    LET d == difference(self, other_set, f)
    IN  IF d.failed
        THEN d
        ELSE LET e == difference(other_set, self, d.f)
             IN  Visited(e.f, FALSE, e.failed)

\* union that starts its second loop after the visitor has said stop
union_second_loop_always(self, other_set, f) ==
    LET a == each_value_of(self, 0, f)
    IN  IF a.failed
        THEN a
        ELSE each_value_where(other_set, 0, self, FALSE, a.f)

\* union whose second loop does not ask self.contains
union_unfiltered(self, other_set, f) ==
    LET a == each_value_of(self, 0, f)
    IN  IF a.returned THEN a ELSE each_value_of(other_set, 0, a.f)

union(self, other_set, f) ==
    LET a == each_value_of(self, 0, f)
    IN  IF a.returned
        THEN a
        ELSE each_value_where(other_set, 0, self, FALSE, a.f)

VARIABLES
    map,     \* the LinearMap
    failed,  \* the owning task has failed inside a method (die!, modulo zero)
    last,    \* the last method called: its name, the value it returned, and
             \* whether it grew the bucket vector
    model,   \* the mapping the calls so far describe: key -> Option<value>
    other    \* Option<LinearMap>: the second map of a two-map method (eq);
             \* for sets, map and other are the maps of self and of other

vars == <<map, failed, last, model, other>>

Call(op, ret, grew) == [op |-> op, ret |-> ret, grew |-> grew]

InitCapacities == (0..MaxInitCap) \cup {INITIAL_CAPACITY}

EmptyModel == [k \in Keys |-> None]

\* LinearMap::new() / linear_map_with_capacity(n): seeds from the task rng;
\* last holds the capacity asked for (new() asks for INITIAL_CAPACITY)
Init ==
    /\ \E k0 \in 0..MaxK0, k1 \in 0..MaxK1, c \in InitCapacities :
           map = linear_map_with_capacity_and_keys(k0, k1, c)
    /\ failed = FALSE
    /\ last = Call("with_capacity", len_buckets(map.buckets), FALSE)
    /\ model = EmptyModel
    /\ other = None

\* The effect of one call of method op whose result on the current map is r;
\* m2 is the mapping the call describes.
Return(op, r, m2) ==
    /\ map' = r.self
    /\ failed' = r.failed
    /\ last' = Call(op, r.ret,
                    len_buckets(r.self.buckets) > len_buckets(map.buckets))
    /\ model' = IF r.failed THEN model ELSE m2
    /\ UNCHANGED other

\* A failed task makes no further calls.
Insert ==
    \E k \in Keys, v \in Values :
        /\ ~failed
        /\ Return("insert", insert(map, k, v), [model EXCEPT ![k] = Some(v)])

Remove ==
    \E k \in Keys :
        /\ ~failed
        /\ Return("remove", remove(map, k), [model EXCEPT ![k] = None])

Pop ==
    \E k \in Keys :
        /\ ~failed
        /\ Return("pop", pop(map, k), [model EXCEPT ![k] = None])

Swap ==
    \E k \in Keys, v \in Values :
        /\ ~failed
        /\ Return("swap", swap(map, k, v), [model EXCEPT ![k] = Some(v)])

Clear ==
    /\ ~failed
    /\ Return("clear", clear(map), EmptyModel)

Consume ==
    /\ ~failed
    /\ Return("consume", consume(map), EmptyModel)

Next == Insert \/ Remove \/ Pop \/ Swap \/ Clear \/ Consume

Spec == Init /\ [][Next]_vars

\* Calls that only read the map
Each ==
    \E stop \in 0..MaxKey :
        /\ ~failed
        /\ Return("each",
                  Res(map, [stop |-> stop, visited |-> each(map, stop)], FALSE),
                  model)

Get ==
    \E k \in Keys :
        /\ ~failed
        /\ Return("get", get(map, k), model)

NextRead == Insert \/ Remove \/ Consume \/ Each \/ Get

SpecRead == Init /\ [][NextRead]_vars

\* Two maps of different capacities and different seeds
InitEq ==
    /\ \E k0 \in {0, MaxK0} :
           /\ map = linear_map_with_capacity_and_keys(k0, 0, MaxInitCap)
           /\ other = Some(linear_map_with_capacity_and_keys(
                               MaxK0 - k0, MaxK1, INITIAL_CAPACITY))
    /\ failed = FALSE
    /\ last = Call("with_capacity", len_buckets(map.buckets), FALSE)
    /\ model = EmptyModel

\* The second map is filled with keys it does not hold yet
InsertOther ==
    \E k \in Keys, v \in Values :
        /\ ~failed
        /\ is_some(other)
        /\ find(unwrap(other), k).ret = None
        /\ LET r == insert(unwrap(other), k, v)
           IN  /\ other' = Some(r.self)
               /\ failed' = r.failed
               /\ last' = Call("insert", r.ret,
                               len_buckets(r.self.buckets)
                                   > len_buckets(unwrap(other).buckets))
        /\ UNCHANGED <<map, model>>

Eq ==
    /\ ~failed
    /\ is_some(other)
    /\ LET r == eq(map, unwrap(other))
       IN  /\ failed' = r.failed
           /\ last' = Call("eq", r.ret, FALSE)
    /\ UNCHANGED <<map, model, other>>

NextEq == Insert \/ Remove \/ InsertOther \/ Eq

SpecEq == InitEq /\ [][NextEq]_vars

\* ---- Two LinearSets: self = LinearSet(map), other = LinearSet(other) ----

\* LinearSet::new() twice, the two sets with different seeds
InitSet ==
    /\ \E k0 \in 0..MaxK0, k1 \in 0..MaxK1 :
           /\ map = LinearSet_new(k0, k1).map
           /\ other = Some(LinearSet_new(MaxK0 - k0, MaxK1 - k1).map)
    /\ failed = FALSE
    /\ last = Call("new", None, FALSE)
    /\ model = EmptyModel

\* A result on a LinearSet as the result on its map
OnMap(r) == Res(r.self.map, r.ret, r.failed)

SetInsert ==
    \E x \in Keys :
        /\ ~failed
        /\ Return("insert", OnMap(LinearSet_insert(LinearSet(map), x)),
                  [model EXCEPT ![x] = Some(Unit)])

SetRemove ==
    \E x \in Keys :
        /\ ~failed
        /\ Return("remove", OnMap(LinearSet_remove(LinearSet(map), x)),
                  [model EXCEPT ![x] = None])

SetClear ==
    /\ ~failed
    /\ Return("clear", OnMap(LinearSet_clear(LinearSet(map))), EmptyModel)

SetInsertOther ==
    \E x \in Keys :
        /\ ~failed
        /\ LET r == LinearSet_insert(LinearSet(unwrap(other)), x)
           IN  /\ other' = Some(r.self.map)
               /\ failed' = r.failed
               /\ last' = Call("insert", r.ret,
                               len_buckets(r.self.map.buckets)
                                   > len_buckets(unwrap(other).buckets))
        /\ UNCHANGED <<map, model>>

\* A call of a visiting method: last holds the visitor as the call left it
Visit(op, r) ==
    /\ failed' = r.failed
    /\ last' = Call(op, r.f, FALSE)
    /\ UNCHANGED <<map, model, other>>

Union ==
    \E stop \in 0..MaxKey :
        /\ ~failed
        /\ Visit("union", union(LinearSet(map), LinearSet(unwrap(other)),
                                Visitor(stop)))

SymmetricDifference ==
    \E stop \in 0..MaxKey :
        /\ ~failed
        /\ Visit("symmetric_difference",
                 symmetric_difference(LinearSet(map), LinearSet(unwrap(other)),
                                      Visitor(stop)))

Difference ==
    \E stop \in 0..MaxKey :
        /\ ~failed
        /\ Visit("difference",
                 difference(LinearSet(map), LinearSet(unwrap(other)),
                            Visitor(stop)))

Intersection ==
    \E stop \in 0..MaxKey :
        /\ ~failed
        /\ Visit("intersection",
                 intersection(LinearSet(map), LinearSet(unwrap(other)),
                              Visitor(stop)))

\* A call of a method that answers a question about the two sets
Ask(op, r) ==
    /\ failed' = r.failed
    /\ last' = Call(op, r.ret, FALSE)
    /\ UNCHANGED <<map, model, other>>

IsDisjoint ==
    /\ ~failed
    /\ Ask("is_disjoint",
           is_disjoint(LinearSet(map), LinearSet(unwrap(other))))

IsSubset ==
    /\ ~failed
    /\ Ask("is_subset", is_subset(LinearSet(map), LinearSet(unwrap(other))))

NextSet ==
    \/ SetInsert \/ SetRemove \/ SetClear \/ SetInsertOther
    \/ Union \/ SymmetricDifference

\* Two sets and the visiting methods difference, intersection and union
NextSetVisit ==
    \/ SetInsert \/ SetRemove \/ SetInsertOther
    \/ Difference \/ Intersection \/ Union

SpecSetVisit == InitSet /\ [][NextSetVisit]_vars

\* Two sets and the tests is_disjoint and is_subset
NextSetAsk ==
    \/ SetInsert \/ SetRemove \/ SetInsertOther
    \/ IsDisjoint \/ IsSubset

SpecSetAsk == InitSet /\ [][NextSetAsk]_vars

SpecSet == InitSet /\ [][NextSet]_vars

\* ---- Inserts and swaps with key objects that compare equal ----

\* Seeds that make all keys collide (k0 = 0) and seeds that spread them
InitOverwrite ==
    /\ \E k0 \in {0, MaxK0}, k1 \in {0, MaxK1} :
           map = linear_map_with_capacity_and_keys(k0, k1, MaxInitCap)
    /\ failed = FALSE
    /\ last = Call("with_capacity", len_buckets(map.buckets), FALSE)
    /\ model = EmptyModel
    /\ other = None

InsertObject ==
    \E k \in KeyObjects, v \in Values :
        /\ ~failed
        /\ Return("insert", insert(map, k, v),
                  [model EXCEPT ![KeyClass(k)] = Some(v)])

SwapObject ==
    \E k \in KeyObjects, v \in Values :
        /\ ~failed
        /\ Return("swap", swap(map, k, v),
                  [model EXCEPT ![KeyClass(k)] = Some(v)])

NextOverwrite == InsertObject \/ SwapObject

SpecOverwrite == InitOverwrite /\ [][NextOverwrite]_vars

\* Inserts of keys not inserted before, into the map as constructed
InsertFresh ==
    \E k \in Keys, v \in Values :
        /\ ~failed
        /\ model[k] = None
        /\ Return("insert", insert(map, k, v), [model EXCEPT ![k] = Some(v)])

NextFresh == InsertFresh

SpecFresh == Init /\ [][NextFresh]_vars

\* The calls that keep the bucket vector: every call of Next but consume
NextKeeping == Insert \/ Remove \/ Pop \/ Swap \/ Clear

SpecKeeping == Init /\ [][NextKeeping]_vars

\* The calls that build and break probe chains
NextChains == Insert \/ Remove \/ Pop \/ Swap

SpecChains == Init /\ [][NextChains]_vars

\* Two maps with the same seeds and capacity that receive the same calls:
\* map inserts as the source does, other inserts searching first. The seeds
\* are the extreme ones: all keys colliding (k0 = 0) or spread (k0 = MaxK0).
InitStrategies ==
    /\ \E k0 \in {0, MaxK0}, k1 \in {0, MaxK1}, c \in InitCapacities :
           map = linear_map_with_capacity_and_keys(k0, k1, c)
    /\ failed = FALSE
    /\ last = Call("with_capacity", len_buckets(map.buckets), FALSE)
    /\ model = EmptyModel
    /\ other = Some(map)

\* One call made on both maps: r is its result on map, r2 on other
ReturnBoth(op, r, r2, m2) ==
    /\ map' = r.self
    /\ other' = Some(r2.self)
    /\ failed' = (r.failed \/ r2.failed)
    /\ last' = Call(op, r.ret,
                    len_buckets(r.self.buckets) > len_buckets(map.buckets))
    /\ model' = IF r.failed \/ r2.failed THEN model ELSE m2

InsertBoth ==
    \E k \in Keys, v \in Values :
        /\ ~failed
        /\ ReturnBoth("insert", insert(map, k, v),
                      insert_search_first(unwrap(other), k, v),
                      [model EXCEPT ![k] = Some(v)])

RemoveBoth ==
    \E k \in Keys :
        /\ ~failed
        /\ ReturnBoth("remove", remove(map, k), remove(unwrap(other), k),
                      [model EXCEPT ![k] = None])

PopBoth ==
    \E k \in Keys :
        /\ ~failed
        /\ ReturnBoth("pop", pop(map, k), pop(unwrap(other), k),
                      [model EXCEPT ![k] = None])

SwapBoth ==
    \E k \in Keys, v \in Values :
        /\ ~failed
        /\ ReturnBoth("swap", swap(map, k, v), swap(unwrap(other), k, v),
                      [model EXCEPT ![k] = Some(v)])

NextStrategies == InsertBoth \/ RemoveBoth \/ PopBoth \/ SwapBoth

SpecStrategies == InitStrategies /\ [][NextStrategies]_vars

\* The search on its own: bucket vectors of 1..MaxSlots buckets with any
\* contents, full ones included, searched for any key under any hash.
\* The hashes start at the first bucket (0 and N) and at the last (N - 1).
SearchHashes(N) == {0, N - 1, N}

InitSearch ==
    /\ \E N \in 1..MaxSlots :
           \E buckets \in [0..(N - 1) ->
                              {None} \cup {Some(Bucket(h, k, 1)) :
                                               h \in SearchHashes(N),
                                               k \in Keys}] :
               map = [k0 |-> 0, k1 |-> 0, resize_at |-> resize_at(N),
                      size |-> Cardinality({i \in 0..(N - 1) :
                                               is_some(buckets[i])}),
                      buckets |-> buckets]
    /\ failed = FALSE
    /\ last = Call("from_fn", len_buckets(map.buckets), FALSE)
    /\ model = EmptyModel
    /\ other = None

Search ==
    \E hash \in SearchHashes(len_buckets(map.buckets)), k \in Keys :
        /\ last' = Call("bucket_for_key_with_hash",
                        [hash |-> hash, k |-> k,
                         found |-> bucket_for_key_with_hash(map.buckets,
                                                            hash, k),
                         visits |-> bucket_sequence_visits(map.buckets,
                                        hash, k,
                                        to_bucket(map.buckets, hash),
                                        to_bucket(map.buckets, hash))],
                        FALSE)
        /\ UNCHANGED <<map, failed, model, other>>

NextSearch == Search

SpecSearch == InitSearch /\ [][NextSearch]_vars

\* ------------------------------------------------------------- properties
Returned(ret) == [ret |-> ret, failed |-> FALSE]

Occupied(buckets) == {i \in DOMAIN buckets : is_some(buckets[i])}

\* Index at which the probe sequence of the entry in slot i starts
Home(buckets, i) == unwrap(buckets[i]).hash % len_buckets(buckets)

\* Number of probe steps from slot h forward (cyclically) to slot i
Distance(buckets, h, i) ==
    (i + len_buckets(buckets) - h) % len_buckets(buckets)

KeyHome(self, k) ==
    hash_keyed(k, self.k0, self.k1) % len_buckets(self.buckets)

\* C1: after any interleaving of insert, remove, pop and swap, find and
\* contains_key report every key still present with the value most recently
\* stored for it, and every other (removed or never stored) key as absent.
LookupTracksCalls ==
    (~failed /\ last.op \in {"insert", "remove", "pop", "swap"}) =>
        \A k \in Keys :
            /\ find(map, k) = Returned(model[k])
            /\ contains_key(map, k) = Returned(is_some(model[k]))

\* A removal has returned on a table where the removed key and a surviving key
\* both start probing at the last slot, so that the chain wrapped around
LookupAfterWrappedRemoval ==
    /\ ~failed
    /\ last.op = "remove" /\ last.ret = TRUE
    /\ \E k1, k2 \in Keys :
           /\ model[k1] = None /\ is_some(model[k2])
           /\ KeyHome(map, k1) = len_buckets(map.buckets) - 1
           /\ KeyHome(map, k2) = len_buckets(map.buckets) - 1

\* C2: every insert of a sequence of inserts of distinct keys into an empty
\* map returns true, and afterwards find(k) returns the value inserted and
\* contains_key(k) is true for every inserted key.
InsertFindRoundTrip ==
    last.op = "insert" =>
        /\ ~failed
        /\ last.ret = TRUE
        /\ \A k \in Keys :
               is_some(model[k]) =>
                   /\ find(map, k) = Returned(model[k])
                   /\ contains_key(map, k) = Returned(TRUE)

\* C3: insert(k, v) returns true exactly when k was not in the map; on a key
\* already present it replaces the value, leaves len() unchanged, returns
\* false, and find(k) then returns the new value.
InsertContract ==
    ~failed =>
        \A k \in Keys, v \in Values :
            LET r == insert(map, k, v)
            IN  /\ ~r.failed
                /\ r.ret = (model[k] = None)
                /\ find(r.self, k) = Returned(Some(v))
                /\ is_some(model[k]) => len(r.self) = len(map)

\* C4: pop(k) of a present key returns its value, makes contains_key(k) false
\* and decreases len() by one; a repeated pop(k) returns absent; remove(k)
\* returns true the first time and false the second time.
PopContract ==
    ~failed =>
        \A k \in Keys :
            is_some(model[k]) =>
                LET p == pop(map, k)
                    p2 == pop(p.self, k)
                    r == remove(map, k)
                    r2 == remove(r.self, k)
                IN  /\ ~p.failed /\ p.ret = model[k]
                    /\ contains_key(p.self, k) = Returned(FALSE)
                    /\ len(p.self) = len(map) - 1
                    /\ ~p2.failed /\ p2.ret = None
                    /\ ~r.failed /\ r.ret = TRUE
                    /\ ~r2.failed /\ r2.ret = FALSE

\* A pop has returned the value of a present key
PopReturnedValue ==
    ~failed /\ last.op = "pop" /\ is_some(last.ret)

\* C5: remove(k) / pop(k) of a key that is not in the map returns false /
\* absent and leaves the bucket vector, size and resize_at as they were.
RemoveMissingNoOp ==
    ~failed =>
        \A k \in Keys :
            model[k] = None =>
                /\ pop(map, k) = Res(map, None, FALSE)
                /\ remove(map, k) = Res(map, FALSE, FALSE)

\* pop(k) followed by insert(k, v), returning what pop returned
PopThenInsert(self, k, v) ==
    LET p == pop(self, k)
        i == insert(p.self, k, v)
    IN  IF p.failed THEN Res(p.self, None, TRUE)
        ELSE Res(i.self, p.ret, i.failed)

\* C6: swap(k, v) behaves as pop(k) followed by insert(k, v): it fails exactly
\* when that sequence fails, and otherwise returns the old value of k (or
\* absent) and leaves the same bucket vector, size and resize_at.
SwapIsPopThenInsert ==
    ~failed =>
        \A k \in Keys, v \in Values :
            LET s == swap(map, k, v)
                q == PopThenInsert(map, k, v)
            IN  /\ s.failed = q.failed
                /\ ~s.failed => /\ s.ret = q.ret
                                /\ s.ret = model[k]
                                /\ s.self = q.self

\* A swap has replaced the value of a present key
SwapReturnedOldValue ==
    ~failed /\ last.op = "swap" /\ is_some(last.ret)

\* The stored (hash, key, value) entries of a map
Contents(self) == {unwrap(self.buckets[i]) : i \in Occupied(self.buckets)}

\* C7: a growth (expand, run by insert and swap when size >= resize_at) keeps
\* every key with its value, adds no key, and leaves len() as it was.
GrowthPreservesContents ==
    (~failed /\ map.size >= map.resize_at) =>
        LET e == expand(map)
        IN  /\ ~e.failed
            /\ \A k \in Keys : find(e.self, k) = find(map, k)
            /\ Contents(e.self) = Contents(map)
            /\ len(e.self) = len(map)

\* A call has grown the bucket vector and reinserted at least one old entry
GrewWithContents ==
    ~failed /\ last.grew /\ map.size >= 2

\* C8: after every call that returns, size is the number of occupied buckets,
\* and a full iteration yields exactly len() pairs.
SizeAccurate ==
    ~failed =>
        /\ map.size = Cardinality(Occupied(map.buckets))
        /\ Len(pairs_from(map.buckets, 0)) = len(map)

\* A swap of a new key has grown a table that already held an entry
SwapGrewTable ==
    ~failed /\ last.op = "swap" /\ last.grew /\ map.size >= 2

\* C9: after every call that returns, no empty bucket lies on the cyclic probe
\* path from an entry's starting index (cached hash mod N) to its bucket.
ProbeChainsUnbroken ==
    ~failed =>
        \A i \in Occupied(map.buckets) :
            \A d \in 0..(Distance(map.buckets, Home(map.buckets, i), i) - 1) :
                is_some(map.buckets[(Home(map.buckets, i) + d)
                                    % len_buckets(map.buckets)])

\* An entry sits in a bucket before its starting index: its chain wrapped
WrappedChain ==
    ~failed /\ \E i \in Occupied(map.buckets) : Home(map.buckets, i) > i

\* C10: after every call that returns, no two occupied buckets hold equal keys.
KeysUnique ==
    ~failed =>
        \A i, j \in Occupied(map.buckets) :
            unwrap(map.buckets[i]).key = unwrap(map.buckets[j]).key => i = j

\* An insert has overwritten a key in a table holding several keys
OverwroteAmongSeveral ==
    ~failed /\ last.op = "insert" /\ last.ret = FALSE /\ map.size >= 2

\* C11: after every public operation that returns, size <= resize_at and
\* resize_at <= the number of buckets.
CapacityOrdering ==
    ~failed =>
        /\ map.size <= map.resize_at
        /\ map.resize_at <= len_buckets(map.buckets)

IsPowerOfTwo(n) == \E e \in 0..n : 2 ^ e = n

\* C12: after every public operation that returns, the number of buckets is a
\* power of two and at least 32.
BucketCountPowerOfTwo ==
    ~failed =>
        /\ IsPowerOfTwo(len_buckets(map.buckets))
        /\ len_buckets(map.buckets) >= INITIAL_CAPACITY

\* The map after insert(1, 1), ..., insert(n, 1) in this order
RECURSIVE InsertKeysUpTo(_, _)
InsertKeysUpTo(self, n) ==
    IF n = 0
    THEN Res(self, TRUE, FALSE)
    ELSE LET r == InsertKeysUpTo(self, n - 1)
         IN  IF r.failed THEN r ELSE insert(r.self, n, 1)

\* C13: the table built by with_capacity(n) has a power-of-two capacity with
\* n <= floor(capacity * 3 / 4), and inserting n distinct keys leaves the
\* capacity as built (checked for the n that the key set can supply).
WithCapacityFitsRequest ==
    last.op = "with_capacity" =>
        LET n == last.ret
            capacity == len_buckets(map.buckets)
        IN  /\ IsPowerOfTwo(capacity)
            /\ n <= (capacity * 3) \div 4
            /\ n <= MaxKey =>
                   LET r == InsertKeysUpTo(map, n)
                   IN  /\ ~r.failed
                       /\ len(r.self) = n
                       /\ len_buckets(r.self.buckets) = capacity

\* Number of occupied slots below slot i
Rank(buckets, i) == Cardinality({j \in Occupied(buckets) : j < i})

\* C14: consume hands the visitor the pair of every occupied slot exactly once,
\* slot by slot in increasing index order (the pairs are those of the mapping
\* built by the calls so far), and leaves len() = 0 and no occupied slot.
ConsumeDrainsInSlotOrder ==
    ~failed =>
        LET r == consume(map)
            occ == Occupied(map.buckets)
        IN  /\ ~r.failed
            /\ Len(r.ret) = Cardinality(occ)
            /\ \A i \in occ :
                   r.ret[Rank(map.buckets, i) + 1]
                       = <<unwrap(map.buckets[i]).key,
                           unwrap(map.buckets[i]).value>>
            /\ \A k \in Keys :
                   Cardinality({j \in 1..Len(r.ret) : r.ret[j][1] = k})
                       = IF model[k] = None THEN 0 ELSE 1
            /\ \A j \in 1..Len(r.ret) : model[r.ret[j][1]] = Some(r.ret[j][2])
            /\ len(r.self) = 0
            /\ Occupied(r.self.buckets) = {}

ConsumedSeveralPairs ==
    /\ ~failed
    /\ last.op = "consume"
    /\ Len(last.ret) >= 2
    /\ map.size = 0
    /\ Occupied(map.buckets) = {}

\* C16: each calls the visitor on occupied slots only, in increasing slot
\* order without skipping one (the j-th call is on the j-th occupied slot), and
\* the call the visitor answers "stop" to is the last one: a visitor stopping
\* at call n sees exactly the first n pairs, one that never stops sees all.
EachVisitsInSlotOrder ==
    ~failed =>
        \A stop \in 0..MaxKey :
            LET visited == each(map, stop)
                occ == Occupied(map.buckets)
            IN  /\ \A j \in 1..Len(visited) :
                       /\ visited[j] \in occ
                       /\ Rank(map.buckets, visited[j]) = j - 1
                /\ Len(visited) = IF stop = NeverStops \/ stop > Cardinality(occ)
                                  THEN Cardinality(occ)
                                  ELSE stop

EachStoppedEarly ==
    /\ ~failed
    /\ last.op = "each"
    /\ last.ret.stop = 1
    /\ Len(last.ret.visited) = 1
    /\ Cardinality(Occupied(map.buckets)) >= 2

\* C17: get(k) returns the value find(k) finds when k is present and fails
\* with the diagnostic naming k when k is absent; the map is as before.
GetContract ==
    ~failed =>
        \A k \in Keys :
            LET g == get(map, k)
            IN  /\ g.self = map
                /\ model[k] # None =>
                       /\ ~g.failed
                       /\ find(map, k) = Returned(Some(g.ret))
                /\ model[k] = None =>
                       /\ g.failed
                       /\ g.ret = NoEntryFound(k)

\* The (key, value) pairs a map holds
PairsOf(self) == {<<b.key, b.value>> : b \in Contents(self)}

\* C15: eq answers true exactly when the two maps have the same size and every
\* key of one is in the other with an equal value, that is when they hold the
\* same pairs, whatever their seeds, capacities and slot layouts; it answers
\* the same with the maps exchanged, and ne answers the opposite.
EqIsSameMapping ==
    (~failed /\ is_some(other)) =>
        LET o == unwrap(other)
            r == eq(map, o)
        IN  /\ ~r.failed
            /\ r.ret = (/\ len(map) = len(o)
                        /\ \A k \in Keys :
                               is_some(find(map, k).ret)
                                   => find(o, k) = find(map, k))
            /\ r.ret = (PairsOf(map) = PairsOf(o))
            /\ eq(o, map) = r
            /\ ne(map, o) = [ret |-> ~r.ret, failed |-> FALSE]

EqualAcrossLayouts ==
    /\ ~failed
    /\ last.op = "eq"
    /\ last.ret = TRUE
    /\ map.size >= 2
    /\ map.k0 # unwrap(other).k0
    /\ len_buckets(map.buckets) # len_buckets(unwrap(other).buckets)
    /\ \E i \in Occupied(map.buckets) : unwrap(other).buckets[i] # map.buckets[i]

\* The values a set holds
Members(self) == {b.key : b \in Contents(self.map)}

\* C18: after any sequence of insert, remove and clear the set answers as the
\* mathematical set those calls describe: contains(x) is membership, len() the
\* cardinality, insert(x) returns true exactly for a non-member and remove(x)
\* true exactly for a member, and clear leaves the empty set.
SetRefinesMathSet ==
    ~failed =>
        LET self == LinearSet(map)
            M == {x \in Keys : model[x] # None}
        IN  /\ Members(self) = M
            /\ LinearSet_len(self) = Cardinality(M)
            /\ \A x \in Keys :
                   /\ contains(self, x) = Returned(x \in M)
                   /\ LET r == LinearSet_insert(self, x)
                      IN  /\ ~r.failed
                          /\ r.ret = (x \notin M)
                          /\ Members(r.self) = M \cup {x}
                   /\ LET r == LinearSet_remove(self, x)
                      IN  /\ ~r.failed
                          /\ r.ret = (x \in M)
                          /\ Members(r.self) = M \ {x}
            /\ LET r == LinearSet_clear(self)
               IN  /\ ~r.failed
                   /\ Members(r.self) = {}
                   /\ LinearSet_len(r.self) = 0

SetRemovedOneOfTwo ==
    /\ ~failed
    /\ is_some(other)
    /\ last.op = "remove"
    /\ last.ret = TRUE
    /\ LinearSet_len(LinearSet(map)) = 1

\* Number of calls of f with the value x
CallsWith(f, x) == Cardinality({j \in 1..Len(f.calls) : f.calls[j] = x})

\* The values of calls number a to b
CalledIn(f, a, b) == {f.calls[j] : j \in a..b}

\* C19: with a visitor that never stops, union calls it with every value of
\* self first and then with every value of other that self does not hold:
\* once with each value of the union and with nothing else.
UnionVisitsEachOnce ==
    (~failed /\ is_some(other)) =>
        LET self == LinearSet(map)
            other_set == LinearSet(unwrap(other))
            r == union(self, other_set, Visitor(NeverStops))
            n == LinearSet_len(self)
        IN  /\ ~r.failed
            /\ ~r.returned
            /\ \A x \in Keys :
                   CallsWith(r.f, x)
                       = IF x \in Members(self) \cup Members(other_set)
                         THEN 1 ELSE 0
            /\ CalledIn(r.f, 1, n) = Members(self)
            /\ CalledIn(r.f, n + 1, Len(r.f.calls))
                   = Members(other_set) \ Members(self)

UnionOfOverlappingSets ==
    /\ ~failed
    /\ last.op = "union"
    /\ last.ret.stop = NeverStops
    /\ Len(last.ret.calls) >= 2
    /\ Members(LinearSet(map)) \cap Members(LinearSet(unwrap(other))) # {}
    /\ Members(LinearSet(unwrap(other))) \ Members(LinearSet(map)) # {}

\* C20: with a visitor that never stops, symmetric_difference calls it once
\* with each value held by exactly one of the two sets and with nothing else:
\* the calls of difference(self, other) followed by those of
\* difference(other, self).
SymmetricDifferenceVisitsEachOnce ==
    (~failed /\ is_some(other)) =>
        LET self == LinearSet(map)
            other_set == LinearSet(unwrap(other))
            r == symmetric_difference(self, other_set, Visitor(NeverStops))
            d1 == difference(self, other_set, Visitor(NeverStops))
            d2 == difference(other_set, self, Visitor(NeverStops))
        IN  /\ ~r.failed
            /\ \A x \in Keys :
                   CallsWith(r.f, x)
                       = IF (x \in Members(self)) # (x \in Members(other_set))
                         THEN 1 ELSE 0
            /\ r.f.calls = d1.f.calls \o d2.f.calls
            /\ CalledIn(d1.f, 1, Len(d1.f.calls))
                   = Members(self) \ Members(other_set)
            /\ CalledIn(d2.f, 1, Len(d2.f.calls))
                   = Members(other_set) \ Members(self)

SymmetricDifferenceBothWays ==
    /\ ~failed
    /\ last.op = "symmetric_difference"
    /\ last.ret.stop = NeverStops
    /\ Len(last.ret.calls) = 2
    /\ Members(LinearSet(map)) \ Members(LinearSet(unwrap(other))) # {}
    /\ Members(LinearSet(unwrap(other))) \ Members(LinearSet(map)) # {}

\* The values a visiting method passed to a never-stopping visitor
Passed(r) == CalledIn(r.f, 1, Len(r.f.calls))

\* C21: with a visitor that never stops, intersection(A, B) passes exactly the
\* values of A that B holds and difference(A, B) exactly those B does not
\* hold; every value of A is passed once, by exactly one of the two.
IntersectionAndDifferencePartition ==
    (~failed /\ is_some(other)) =>
        LET A == LinearSet(map)
            B == LinearSet(unwrap(other))
            i == intersection(A, B, Visitor(NeverStops))
            d == difference(A, B, Visitor(NeverStops))
        IN  /\ ~i.failed /\ ~d.failed
            /\ Passed(i) = Members(A) \cap Members(B)
            /\ Passed(d) = Members(A) \ Members(B)
            /\ \A x \in Keys :
                   CallsWith(i.f, x) + CallsWith(d.f, x)
                       = IF x \in Members(A) THEN 1 ELSE 0

SplitByIntersectionAndDifference ==
    /\ ~failed
    /\ last.op = "intersection"
    /\ last.ret.stop = NeverStops
    /\ Len(last.ret.calls) = 1
    /\ LinearSet_len(LinearSet(map)) = 2
    /\ Len(difference(LinearSet(map), LinearSet(unwrap(other)),
                      Visitor(NeverStops)).f.calls) = 1

\* C22: once the visitor has answered stop, symmetric_difference does not call
\* it again: a visitor that stops at call n is called at most n times.
SymmetricDifferenceHonoursStop ==
    (~failed /\ is_some(other)) =>
        \A stop \in 1..MaxKey :
            Len(symmetric_difference(LinearSet(map), LinearSet(unwrap(other)),
                                     Visitor(stop)).f.calls) <= stop

\* The first n elements of a sequence (all of it when it is shorter)
Prefix(seq, n) == SubSeq(seq, 1, IF n < Len(seq) THEN n ELSE Len(seq))

\* The calls made when the visitor stops at call number stop are the first
\* stop calls made with a visitor that never stops, and the method returns
\* early exactly when there was a call number stop.
StopsAtOnce(r, full, stop) ==
    LET calls == full.f.calls
    IN  r = Visited([stop |-> stop, calls |-> Prefix(calls, stop)],
                    Len(calls) >= stop, FALSE)

\* C23: once the visitor has answered stop, difference, intersection and
\* union do not call it again; union then does not start its second loop.
VisitingStopsAtOnce ==
    (~failed /\ is_some(other)) =>
        LET A == LinearSet(map)
            B == LinearSet(unwrap(other))
        IN  \A stop \in 1..MaxKey :
                /\ StopsAtOnce(difference(A, B, Visitor(stop)),
                               difference(A, B, Visitor(NeverStops)), stop)
                /\ StopsAtOnce(intersection(A, B, Visitor(stop)),
                               intersection(A, B, Visitor(NeverStops)), stop)
                /\ StopsAtOnce(union(A, B, Visitor(stop)),
                               union(A, B, Visitor(NeverStops)), stop)

UnionStoppedBeforeSecondLoop ==
    /\ ~failed
    /\ last.op = "union"
    /\ last.ret.stop = 1
    /\ Len(last.ret.calls) = 1
    /\ last.ret.calls[1] \in Members(LinearSet(map))
    /\ Members(LinearSet(unwrap(other))) \ Members(LinearSet(map)) # {}

\* C24: is_disjoint(A, B) is true exactly when no value of A is in B, which is
\* exactly when intersection(A, B) passes nothing to its visitor, and
\* is_disjoint(B, A) answers the same.
DisjointIsEmptyIntersection ==
    (~failed /\ is_some(other)) =>
        LET A == LinearSet(map)
            B == LinearSet(unwrap(other))
            d == is_disjoint(A, B)
        IN  /\ ~d.failed
            /\ d.ret = (Members(A) \cap Members(B) = {})
            /\ d.ret = (intersection(A, B, Visitor(NeverStops)).f.calls = <<>>)
            /\ is_disjoint(B, A) = d

DisjointNonEmptySets ==
    /\ ~failed
    /\ last.op = "is_disjoint"
    /\ last.ret = TRUE
    /\ Members(LinearSet(map)) # {}
    /\ Members(LinearSet(unwrap(other))) # {}

\* C25: is_subset(A, B) is true exactly when every value of A is in B,
\* is_superset(A, B) is is_subset(B, A), and A and B are subsets of each other
\* exactly when A == B.
SubsetLaws ==
    (~failed /\ is_some(other)) =>
        LET A == LinearSet(map)
            B == LinearSet(unwrap(other))
            ab == is_subset(A, B)
            ba == is_subset(B, A)
        IN  /\ ~ab.failed /\ ~ba.failed
            /\ ab.ret = (Members(A) \subseteq Members(B))
            /\ is_superset(A, B) = ba
            /\ is_superset(B, A) = ab
            /\ LinearSet_eq(A, B) = Returned(ab.ret /\ ba.ret)
            /\ LinearSet_ne(A, B) = Returned(~(ab.ret /\ ba.ret))
            /\ LinearSet_eq(A, B).ret = (Members(A) = Members(B))

ProperSubset ==
    /\ ~failed
    /\ last.op = "is_subset"
    /\ last.ret = TRUE
    /\ Members(LinearSet(map)) # {}
    /\ Members(LinearSet(map)) # Members(LinearSet(unwrap(other)))

\* C26: as sets of values passed to a never-stopping visitor, union(A, B) is
\* union(B, A) and intersection(A, B) is intersection(B, A); union(A, A) and
\* intersection(A, A) pass exactly the values of A, each once.
UnionIntersectionLaws ==
    (~failed /\ is_some(other)) =>
        LET A == LinearSet(map)
            B == LinearSet(unwrap(other))
            f == Visitor(NeverStops)
        IN  /\ Passed(union(A, B, f)) = Passed(union(B, A, f))
            /\ Passed(intersection(A, B, f)) = Passed(intersection(B, A, f))
            /\ \A S \in {A, B} :
                   /\ Passed(union(S, S, f)) = Members(S)
                   /\ Passed(intersection(S, S, f)) = Members(S)
                   /\ Len(union(S, S, f).f.calls) = LinearSet_len(S)
                   /\ Len(intersection(S, S, f).f.calls) = LinearSet_len(S)

IntersectionOfDifferentSets ==
    /\ ~failed
    /\ last.op = "intersection"
    /\ last.ret.stop = NeverStops
    /\ Len(last.ret.calls) >= 1
    /\ Members(LinearSet(map)) \ Members(LinearSet(unwrap(other))) # {}

\* C27: the aborts on a broken invariant never fire.  In every reachable state
\* and for every key and value, insert, swap and pop fail only on a map
\* without buckets, where the search ends in the modulo zero before it can
\* report TableFull: so insert_internal never gets TableFull, neither in
\* insert or swap nor in the reinsertions of expand and of the repair loop.
\* No search is TableFull, expand does not fail, and find never gets
\* FoundEntry for an empty slot.
AbortsNeverFire ==
    ~failed =>
        /\ ~expand(map).failed
        /\ \A k \in Keys :
               LET r == bucket_for_key(map, k)
               IN  /\ r.tag # "TableFull"
                   /\ r.tag = "FoundEntry" => is_some(map.buckets[r.idx])
                   /\ r.tag # "ModuloZero" =>
                          /\ ~find(map, k).failed
                          /\ ~pop(map, k).failed
                          /\ \A v \in Values :
                                 /\ ~insert(map, k, v).failed
                                 /\ ~swap(map, k, v).failed

FilledToThreshold ==
    /\ ~failed
    /\ last.op = "insert"
    /\ map.size = map.resize_at
    /\ map.size >= 2

\* C28: after every public operation that returns, size is below the number
\* of buckets, so some bucket is empty, and size / capacity is at most 3/4.
NeverFull ==
    ~failed =>
        /\ map.size < len_buckets(map.buckets)
        /\ \E i \in DOMAIN map.buckets : map.buckets[i] = None
        /\ 4 * map.size <= 3 * len_buckets(map.buckets)

\* C30: after every public operation that returns, the hash cached in every
\* occupied slot is hash_keyed(key, k0, k1); growth keeps every bucket (cached
\* hash, key, value) as it was, and pop keeps all but the removed one.
CachedHashIsKeyHash ==
    ~failed =>
        /\ \A i \in Occupied(map.buckets) :
               unwrap(map.buckets[i]).hash
                   = hash_keyed(unwrap(map.buckets[i]).key, map.k0, map.k1)
        /\ LET e == expand(map)
           IN  ~e.failed /\ Contents(e.self) = Contents(map)
        /\ \A k \in Keys :
               LET p == pop(map, k)
               IN  ~p.failed =>
                       Contents(p.self) = {b \in Contents(map) : b.key # k}

RepairedInGrownTable ==
    /\ ~failed
    /\ last.op = "remove"
    /\ last.ret = TRUE
    /\ map.size >= 1
    /\ len_buckets(map.buckets) \notin InitCapacities

\* The buckets whose key compares equal to k
BucketsOf(self, k) == {b \in Contents(self) : key_eq(k, b.key)}

\* C29: when insert or swap is given a key object k that compares equal to a
\* stored key, the one slot of that key afterwards holds the object k itself
\* and the new value, whichever equal object was stored before.
NewKeyWins ==
    ~failed =>
        \A k \in KeyObjects, v \in Values :
            model[KeyClass(k)] # None =>
                LET i == insert(map, k, v)
                    s == swap(map, k, v)
                    hash == hash_keyed(k, map.k0, map.k1)
                IN  /\ ~i.failed /\ ~s.failed
                    /\ i.ret = FALSE
                    /\ s.ret = model[KeyClass(k)]
                    /\ BucketsOf(i.self, k) = {Bucket(hash, k, v)}
                    /\ BucketsOf(s.self, k) = {Bucket(hash, k, v)}

OverwroteWithEqualObject ==
    /\ ~failed
    /\ last.op = "insert"
    /\ last.ret = FALSE
    /\ \E b \in Contents(map) : b.key > MaxKey
    /\ \E b \in Contents(map) : b.key <= MaxKey

\* C31: no call of insert, swap, remove, pop or clear makes the bucket vector
\* shorter, and remove, pop and clear leave both its length and resize_at as
\* they were.
NeverShrinksImplicitly ==
    ~failed =>
        /\ \A k \in Keys :
               /\ len_buckets(remove(map, k).self.buckets)
                      = len_buckets(map.buckets)
               /\ remove(map, k).self.resize_at = map.resize_at
               /\ len_buckets(pop(map, k).self.buckets)
                      = len_buckets(map.buckets)
               /\ pop(map, k).self.resize_at = map.resize_at
               /\ \A v \in Values :
                      /\ len_buckets(insert(map, k, v).self.buckets)
                             >= len_buckets(map.buckets)
                      /\ len_buckets(swap(map, k, v).self.buckets)
                             >= len_buckets(map.buckets)
        /\ len_buckets(clear(map).self.buckets) = len_buckets(map.buckets)
        /\ clear(map).self.resize_at = map.resize_at

\* A table that had grown (no construction gives this length) has been
\* cleared and is as long as it was
ClearedGrownTable ==
    /\ ~failed
    /\ last.op = "clear"
    /\ map.size = 0
    /\ len_buckets(map.buckets) \notin InitCapacities
    /\ map.resize_at = (len_buckets(map.buckets) * 3) \div 4

\* C32: after consume returns, the map is a usable empty map: an insert(k, v)
\* on it completes, returns true, and find(k) then returns v.
ConsumeLeavesUsableMap ==
    (~failed /\ last.op = "consume") =>
        \A k \in Keys, v \in Values :
            LET r == insert(map, k, v)
            IN  /\ ~r.failed
                /\ r.ret = TRUE
                /\ find(r.self, k) = Returned(Some(v))

\* The table as pop_internal hands it to its repair loop when it removes the
\* entry in slot i
Emptied(self, i) == [self EXCEPT !.buckets[i] = None]

\* C33: for every key in the map, the repair loop of pop ends after fewer
\* passes than there are buckets (its index reaches an empty bucket), and the
\* reinsertions leave no more buckets occupied than there were when it began.
RepairTerminates ==
    ~failed =>
        \A k \in Keys :
            LET s == bucket_for_key(map, k)
            IN  s.tag = "FoundEntry" =>
                    LET start == Emptied(map, s.idx)
                        r == repair_loop(start,
                                 next_bucket(s.idx, len_buckets(map.buckets)))
                    IN  /\ ~r.failed
                        /\ r.ret < len_buckets(map.buckets)
                        /\ Cardinality(Occupied(r.self.buckets))
                               <= Cardinality(Occupied(start.buckets))
                        /\ pop(map, k).self.buckets = r.self.buckets

\* A pop has removed the one absent key from its starting bucket, which is
\* now empty, and the bucket after it is occupied: the repair loop took that
\* entry out and reinserted it
PoppedBeforeNeighbour ==
    /\ ~failed
    /\ last.op = "pop" /\ is_some(last.ret)
    /\ map.size = MaxKey - 1
    /\ len_buckets(map.buckets) >= 2
    /\ \E y \in Keys :
           /\ model[y] = None
           /\ map.buckets[KeyHome(map, y)] = None
           /\ is_some(map.buckets[next_bucket(KeyHome(map, y),
                                              len_buckets(map.buckets))])

\* First empty bucket met from bucket h on, going round the table
FirstEmptyFrom(buckets, h) ==
    LET N == len_buckets(buckets)
        d == CHOOSE d \in 0..(N - 1) :
                 /\ buckets[(h + d) % N] = None
                 /\ \A e \in 0..(d - 1) : is_some(buckets[(h + e) % N])
    IN  (h + d) % N

\* Every pass of the repair loop from bucket idx on: the entry taken out of
\* bucket idx lands in the first empty bucket from its starting index, which
\* is idx or a bucket before it on the entry's probe path, and no other
\* bucket changes.
RECURSIVE RepairLandsEarlier(_, _)
RepairLandsEarlier(self, idx) ==
    IF ~is_some(self.buckets[idx])
    THEN TRUE
    ELSE LET taken == Emptied(self, idx)
             r == insert_opt_bucket(taken, self.buckets[idx])
             home == Home(self.buckets, idx)
             j == FirstEmptyFrom(taken.buckets, home)
         IN  /\ ~r.failed
             /\ r.self.buckets[j] = self.buckets[idx]
             /\ Distance(self.buckets, home, j)
                    <= Distance(self.buckets, home, idx)
             /\ \A i \in DOMAIN self.buckets :
                    i \notin {idx, j} => r.self.buckets[i] = self.buckets[i]
             /\ j # idx => r.self.buckets[idx] = None
             /\ RepairLandsEarlier(r.self,
                    next_bucket(idx, len_buckets(self.buckets)))

\* C34: during the chain repair of pop, an entry taken out of bucket j and
\* reinserted lands in bucket j or in an earlier bucket of its own probe path
\* (the first empty bucket from its starting index), never beyond j, and the
\* buckets not yet scanned are left as they were.
RepairMovesEntriesBack ==
    ~failed =>
        \A k \in Keys :
            LET s == bucket_for_key(map, k)
            IN  s.tag = "FoundEntry" =>
                    RepairLandsEarlier(Emptied(map, s.idx),
                        next_bucket(s.idx, len_buckets(map.buckets)))

\* A pop of a key of this table makes the repair loop move another entry out
\* of its bucket into an earlier one
RepairMovesAnEntry ==
    /\ ~failed
    /\ \E k \in Keys :
           LET s == bucket_for_key(map, k)
           IN  /\ s.tag = "FoundEntry"
               /\ \E i \in Occupied(map.buckets) :
                      /\ i # s.idx
                      /\ pop(map, k).self.buckets[i] = None
                      /\ pop(map, k).self.buckets[s.idx] = map.buckets[i]

\* C35: an insert that returns has doubled the bucket vector when size >=
\* resize_at held as it was called and has left its length alone otherwise,
\* whether or not the key was in the map; an overwrite at the threshold
\* doubles the bucket vector and leaves len() as it was.
InsertGrowsAtThreshold ==
    ~failed =>
        \A k \in Keys, v \in Values :
            LET r == insert(map, k, v)
                N == len_buckets(map.buckets)
            IN  ~r.failed =>
                    /\ len_buckets(r.self.buckets)
                           = IF map.size >= map.resize_at THEN 2 * N ELSE N
                    /\ len_buckets(r.self.buckets) > N
                           <=> map.size >= map.resize_at
                    /\ is_some(model[k]) =>
                           /\ r.ret = FALSE
                           /\ len(r.self) = len(map)

\* An insert has overwritten a key and grown the table
OverwriteGrewTable ==
    /\ ~failed
    /\ last.op = "insert" /\ last.ret = FALSE /\ last.grew
    /\ map.size = MaxKey

\* r is three quarters of n, rounded down
IsFloorOfThreeQuarters(r, n) == 4 * r <= 3 * n /\ 3 * n < 4 * (r + 1)

\* C36: growing makes the bucket vector exactly twice as long as it was and
\* sets resize_at to three quarters of the new length, rounded down;
\* construction sets resize_at to three quarters of the capacity, rounded down.
GrowthDoublesAndResetsThreshold ==
    ~failed =>
        /\ LET e == expand(map)
           IN  /\ ~e.failed
               /\ len_buckets(e.self.buckets) = 2 * len_buckets(map.buckets)
               /\ IsFloorOfThreeQuarters(e.self.resize_at,
                                         2 * len_buckets(map.buckets))
        /\ (last.op = "with_capacity" \/ last.grew) =>
               IsFloorOfThreeQuarters(map.resize_at, len_buckets(map.buckets))

\* A table has grown to a length of which three quarters is not whole
GrewToRoundedThreshold ==
    /\ ~failed
    /\ last.grew
    /\ (3 * len_buckets(map.buckets)) % 4 # 0
    /\ len_buckets(map.buckets) >= 6

\* What a call gives its caller: the value it returns, or nothing when the
\* task fails in it
Outcome(r) == IF r.failed THEN None ELSE Some(r.ret)

\* C37: a map that grows before searching and a map that searches first and
\* grows only for an absent key, given the same insert, remove, pop and swap
\* calls, answer every call alike and hold the same keys with the same values
\* and the same len(); only their capacities may differ.
StrategiesEquivalent ==
    (~failed /\ is_some(other)) =>
        LET o == unwrap(other)
        IN  /\ len(map) = len(o)
            /\ PairsOf(map) = PairsOf(o)
            /\ \A k \in Keys :
                   /\ find(map, k) = find(o, k)
                   /\ contains_key(map, k) = contains_key(o, k)
                   /\ Outcome(pop(map, k)) = Outcome(pop(o, k))
                   /\ Outcome(remove(map, k)) = Outcome(remove(o, k))
                   /\ \A v \in Values :
                          /\ Outcome(insert(map, k, v))
                                 = Outcome(insert_search_first(o, k, v))
                          /\ Outcome(swap(map, k, v)) = Outcome(swap(o, k, v))

\* The two maps hold the same keys in bucket vectors of different lengths:
\* an overwrite at the threshold grew only the map that grows before it
\* searches
StrategiesDifferInCapacity ==
    /\ ~failed
    /\ is_some(other)
    /\ last.op = "insert" /\ last.ret = FALSE /\ last.grew
    /\ len_buckets(map.buckets) = 2 * len_buckets(unwrap(other).buckets)
    /\ map.size = unwrap(other).size
    /\ map.size >= 2

\* C38: on a table built by with_capacity(n), for any n >= 0 (0 and 1
\* included), the first insert completes and returns true, and the key is
\* found afterwards.
FirstInsertNeverFails ==
    (~failed /\ last.op = "with_capacity") =>
        \A k \in Keys, v \in Values :
            LET r == insert(map, k, v)
            IN  /\ ~r.failed
                /\ r.ret = TRUE
                /\ contains_key(r.self, k) = Returned(TRUE)
                /\ find(r.self, k) = Returned(Some(v))

\* C39: the search visits the buckets h mod N, (h + 1) mod N, ... in turn,
\* wrapping round, at most N of them and none twice; it returns FoundEntry(i)
\* at the first bucket i that holds an entry with cached hash h and an equal
\* key, FoundHole(i) at the first empty bucket i when that comes before, and
\* TableFull only after visiting all N buckets and meeting neither.
SearchWalksProbeSequence ==
    last.op = "bucket_for_key_with_hash" =>
        LET buckets == map.buckets
            N == len_buckets(buckets)
            h == last.ret.hash
            visits == last.ret.visits
            found == last.ret.found
            Wanted(i) == /\ is_some(buckets[i])
                         /\ unwrap(buckets[i]).hash = h
                         /\ unwrap(buckets[i]).key = last.ret.k
            end == visits[Len(visits)]
        IN  /\ Len(visits) \in 1..N
            /\ \A j \in 1..Len(visits) : visits[j] = (h + j - 1) % N
            /\ \A i, j \in 1..Len(visits) : visits[i] = visits[j] => i = j
            /\ \A j \in 1..(Len(visits) - 1) :
                   is_some(buckets[visits[j]]) /\ ~Wanted(visits[j])
            /\ found = IF Wanted(end) THEN FoundEntry(end)
                       ELSE IF buckets[end] = None THEN FoundHole(end)
                       ELSE TableFull
            /\ found = TableFull => Len(visits) = N

\* A search that wrapped round the end of the table and found its entry after
\* passing an entry with an equal key under another hash
SearchWrappedPastOtherHash ==
    /\ last.op = "bucket_for_key_with_hash"
    /\ last.ret.found.tag = "FoundEntry"
    /\ last.ret.found.idx < last.ret.hash % len_buckets(map.buckets)
    /\ \E j \in 1..(Len(last.ret.visits) - 1) :
           unwrap(map.buckets[last.ret.visits[j]]).key = last.ret.k

====
